---- MODULE Spec2Model ----
(***************************************************************************)
(* SDSS bulk FITS downloader (src/src/download-images.py).                 *)
(*                                                                         *)
(* generate_urls samples NUM_FIELDS distinct (run, camcol, field) keys     *)
(* from SDSS_RUNS by rejection sampling and expands each into one URL per  *)
(* band.  main creates a semaphore of MAX_CONCURRENT permits, a shared     *)
(* progress dictionary and one download_one coroutine per URL, and waits   *)
(* for all of them with asyncio.gather.  The coroutines interleave at      *)
(* their await points: the semaphore acquisition, the response of the GET  *)
(* and each chunk of the body.                                             *)
(***************************************************************************)
EXTENDS Integers, Sequences, FiniteSets, TLC

\* ------------------------------------------------------------ bounds
MaxN == 3          \* largest NUM_FIELDS tried by the sampler alone
MaxTasks == 2      \* largest number of URLs a modelled download run handles
MaxConc == 2       \* largest MAX_CONCURRENT tried
MaxChunks == 1     \* largest number of body chunks a response delivers
MaxRetries == 1    \* the count of discarded draws saturates here

\* ------------------------------------------------------------ program constants
RERUN == 301
FIELD_LOW == 11
FIELD_CAP == 500
RUN_WIDTH == 6
FIELD_WIDTH == 4

\* The configurations tried for the module-level tables of the script.
\* Each pool entry is (run, camcol, max_field).
Pools ==
    { << >>,
      << <<752, 1, 11>> >>,
      << <<752, 1, 12>> >>,
      << <<752, 1, 11>>, <<756, 2, 12>> >>,
      << <<752, 1, 12>>, <<1033, 3, 10>> >> }

BandLists == { <<"r">>, <<"g", "r">> }

\* HTTP statuses the transport may answer with (500 stands for every status
\* other than 200 and 404).
Statuses == {200, 404, 500}

\* Exceptions a request or a chunk read may raise.
Faults == {"timeout", "error"}

VARIABLES
    SDSS_RUNS,       \* the identifier pool
    NUM_FIELDS,      \* number of keys to sample
    BANDS,           \* bands to expand each key into
    MAX_CONCURRENT,  \* size of the semaphore
    phase,           \* "sampling", "returned", "running", "complete", "crashed"
    fields_picked,   \* generate_urls: the set of accepted keys
    urls,            \* generate_urls: the list of URLs built so far
    retries,         \* number of draws discarded as duplicates (saturating)
    file_urls,       \* main: the list generate_urls returned
    run,             \* 1 for the first invocation on the directory, 2 for the second
    progress,        \* main: the shared counters
    permits,         \* the semaphore's value
    holders,         \* the tasks inside "async with semaphore"
    pc,              \* per task: "wait", "check", "request", "body", "returned"
    status,          \* per task: the HTTP status received (0: none yet)
    fault,           \* per task: the exception raised ("none": none)
    size,            \* per task: chunks written so far (a local of the coroutine)
    fs,              \* destination directory: path -> "absent", "partial", "complete"
    fs0,             \* the directory as it was when the run started
    requests         \* number of GET requests issued in this run

cfgvars == <<SDSS_RUNS, NUM_FIELDS, BANDS, MAX_CONCURRENT>>
genvars == <<fields_picked, urls, retries>>
runvars == <<file_urls, run, progress, permits, holders, pc, status, fault, size,
             fs, fs0, requests>>
vars == <<cfgvars, phase, genvars, runvars>>

\* ------------------------------------------------------------ string formatting
\* A string is modelled as the sequence of its tokens; every "/" and every
\* digit is a token of its own.
DigitChar(d) ==
    CASE d = 0 -> "0" [] d = 1 -> "1" [] d = 2 -> "2" [] d = 3 -> "3"
      [] d = 4 -> "4" [] d = 5 -> "5" [] d = 6 -> "6" [] d = 7 -> "7"
      [] d = 8 -> "8" [] d = 9 -> "9"

\* the number of decimal digits of n >= 0
NumDigits(n) == CHOOSE k \in 1..12 : n < 10^k /\ (k = 1 \/ n >= 10^(k - 1))

\* str(n) for n >= 0
Str(n) == [i \in 1..NumDigits(n) |-> DigitChar((n \div 10^(NumDigits(n) - i)) % 10)]

\* the padding of a format specification 0{w}d: zeros in front, up to width w
ZeroFill(s, w) == IF Len(s) >= w THEN s ELSE [i \in 1..(w - Len(s)) |-> "0"] \o s

\* f"{n:0{w}d}" for n >= 0
Fmt(n, w) == ZeroFill(Str(n), w)

\* the file name written without the band
Url_NoBand(band, key) ==
    <<"https:", "/", "/", "data.sdss.org", "/", "sas", "/", "dr17", "/", "eboss",
      "/", "photoObj", "/", "frames", "/">>
    \o Str(RERUN) \o <<"/">> \o Str(key[1]) \o <<"/">> \o Str(key[2])
    \o <<"/", "frame-">> \o Fmt(key[1], RUN_WIDTH) \o <<"-">>
    \o Str(key[2]) \o <<"-">> \o Fmt(key[3], FIELD_WIDTH) \o <<".fits.bz2">>

\* The f-string of lines 139-142.
Url(band, key) ==
    <<"https:", "/", "/", "data.sdss.org", "/", "sas", "/", "dr17", "/", "eboss",
      "/", "photoObj", "/", "frames", "/">>
    \o Str(RERUN) \o <<"/">> \o Str(key[1]) \o <<"/">> \o Str(key[2])
    \o <<"/", "frame-", band, "-">> \o Fmt(key[1], RUN_WIDTH) \o <<"-">>
    \o Str(key[2]) \o <<"-">> \o Fmt(key[3], FIELD_WIDTH) \o <<".fits.bz2">>

\* url.split("/")[-1]: what follows the last "/"
LastSegment(u) ==
    LET slashes == {i \in 1..Len(u) : u[i] = "/"}
        last == IF slashes = {} THEN 0
                ELSE CHOOSE i \in slashes : \A j \in slashes : j <= i
    IN SubSeq(u, last + 1, Len(u))

\* filepath = os.path.join(dest_dir, filename), dest_dir being the same for all
FilePath(u) == LastSegment(u)

Min(a, b) == IF a < b THEN a ELSE b


\* ------------------------------------------------------------ generate_urls
\* the loop test stopping one key short
LoopContinues_OffByOne(picked, n) == Cardinality(picked) < n - 1

\* while len(fields_picked) < n_fields
LoopContinues(picked, n) == Cardinality(picked) < n

\* randint's upper end taken as max_field itself
FieldRange_NoCap(max_field) == FIELD_LOW .. max_field

\* the values random.randint(11, min(max_field, 500)) can return
FieldRange(max_field) == FIELD_LOW .. Min(max_field, FIELD_CAP)

\* the membership test left out: every draw is accepted
IsDuplicate_Never(key, picked) == FALSE

\* the membership test answering yes for every draw
IsDuplicate_Always(key, picked) == TRUE

\* if key in fields_picked
IsDuplicate(key, picked) == key \in picked

\* the append placed outside the loop over the bands
FanOut_FirstBand(key, bands) == <<Url(bands[1], key)>>

\* for band in BANDS: urls.append(url)
FanOut(key, bands) == [i \in 1..Len(bands) |-> Url(bands[i], key)]

\* One iteration of the sampling loop that draws pool entry i and the field.
Draw(i, field) ==
    /\ phase = "sampling"
    /\ LoopContinues(fields_picked, NUM_FIELDS)
    /\ i \in 1..Len(SDSS_RUNS)
    /\ field \in FieldRange(SDSS_RUNS[i][3])
    /\ LET key == <<SDSS_RUNS[i][1], SDSS_RUNS[i][2], field>> IN
         IF IsDuplicate(key, fields_picked)
         THEN /\ retries' = Min(retries + 1, MaxRetries)
              /\ UNCHANGED <<fields_picked, urls>>
         ELSE /\ fields_picked' = fields_picked \cup {key}
              /\ urls' = urls \o FanOut(key, BANDS)
              /\ UNCHANGED retries
    /\ UNCHANGED <<cfgvars, phase, runvars>>

\* random.choice answering an empty pool by ending the loop quietly
ChoiceFails_ReturnsEmpty ==
    /\ phase = "sampling"
    /\ LoopContinues(fields_picked, NUM_FIELDS)
    /\ SDSS_RUNS = << >>
    /\ phase' = "returned"
    /\ file_urls' = urls
    /\ UNCHANGED <<cfgvars, genvars, run, progress, permits, holders, pc, status,
                   fault, size, fs, fs0, requests>>

\* random.choice raises IndexError on an empty pool; nothing catches it.
ChoiceFails ==
    /\ phase = "sampling"
    /\ LoopContinues(fields_picked, NUM_FIELDS)
    /\ SDSS_RUNS = << >>
    /\ phase' = "crashed"
    /\ UNCHANGED <<cfgvars, genvars, runvars>>

\* random.randint raises ValueError on an empty range; nothing catches it.
RandintFails(i) ==
    /\ phase = "sampling"
    /\ LoopContinues(fields_picked, NUM_FIELDS)
    /\ i \in 1..Len(SDSS_RUNS)
    /\ FieldRange(SDSS_RUNS[i][3]) = {}
    /\ phase' = "crashed"
    /\ UNCHANGED <<cfgvars, genvars, runvars>>

\* return urls; file_urls = generate_urls(NUM_FIELDS)
Return ==
    /\ phase = "sampling"
    /\ ~LoopContinues(fields_picked, NUM_FIELDS)
    /\ phase' = "returned"
    /\ file_urls' = urls
    /\ UNCHANGED <<cfgvars, genvars, run, progress, permits, holders, pc, status,
                   fault, size, fs, fs0, requests>>

\* ------------------------------------------------------------ main
Tasks == DOMAIN pc

Paths(us) == {FilePath(us[t]) : t \in 1..Len(us)}

FileStates == {"absent", "partial", "complete"}

\* a semaphore created one permit too large
NewSemaphore_OneMore(n) == n + 1

\* asyncio.Semaphore(MAX_CONCURRENT)
NewSemaphore(n) == n

\* progress = {"done": 0, "failed": 0, "missing": 0, "skipped": 0, "target": total_files}
NewProgress(total_files) ==
    [done |-> 0, failed |-> 0, missing |-> 0, skipped |-> 0, target |-> total_files]

\* the existence test placed before "async with semaphore"
FirstStep_Check == "check"

\* Where a coroutine of download_one starts: its first statement is
\* "async with semaphore".
FirstStep == "wait"

\* The state of a run as main sets it up, before any coroutine has run.
Launch(dir) ==
    /\ progress' = NewProgress(Len(file_urls))
    /\ permits' = NewSemaphore(MAX_CONCURRENT)
    /\ holders' = {}
    /\ pc' = [t \in 1..Len(file_urls) |-> FirstStep]
    /\ status' = [t \in 1..Len(file_urls) |-> 0]
    /\ fault' = [t \in 1..Len(file_urls) |-> "none"]
    /\ size' = [t \in 1..Len(file_urls) |-> 0]
    /\ fs' = dir
    /\ fs0' = dir
    /\ requests' = 0

\* main from the return of generate_urls to the gather; dir is what the
\* destination directory holds at the paths of this run's tasks.  The locals
\* of generate_urls are gone: only the returned list is kept.
StartRun(dir) ==
    /\ phase = "returned"
    /\ dir \in [Paths(file_urls) -> FileStates]
    /\ phase' = "running"
    /\ fields_picked' = {}
    /\ urls' = << >>
    /\ retries' = 0
    /\ Launch(dir)
    /\ UNCHANGED <<cfgvars, file_urls, run>>

\* await asyncio.gather(*tasks) returns once every coroutine has returned;
\* the summary is printed.
Finish ==
    /\ phase = "running"
    /\ \A t \in Tasks : pc[t] = "returned"
    /\ phase' = "complete"
    /\ UNCHANGED <<cfgvars, genvars, runvars>>

\* The script is run a second time on the same directory and generate_urls
\* returns the same list.
SecondRun ==
    /\ phase = "complete"
    /\ run = 1
    /\ run' = 2
    /\ phase' = "running"
    /\ Launch(fs)
    /\ UNCHANGED <<cfgvars, genvars, file_urls>>

\* ------------------------------------------------------------ download_one
\* an increment written from a value read before the await
Bump_Stale(p, k) == [p EXCEPT ![k] = 1]

\* progress[k] += 1 (no await between the read and the write)
Bump(p, k) == [p EXCEPT ![k] = @ + 1]

\* a test that never finds the file
Exists_Never(dir, path) == FALSE

\* a test that takes a truncated file for a missing one
Exists_OnlyComplete(dir, path) == dir[path] = "complete"

\* os.path.exists(filepath)
Exists(dir, path) == dir[path] # "absent"

\* progress["skipped"] += 1
CountSkipped(p) == Bump(p, "skipped")

\* a 404 counted as a failure
CountMissing_AsFailed(p) == Bump(p, "failed")

\* progress["missing"] += 1
CountMissing(p) == Bump(p, "missing")

\* the status branch counting an unexpected status as a missing file
CountHttpError_AsMissing(p) == Bump(p, "missing")

\* progress["failed"] += 1 of the status branch
CountHttpError(p) == Bump(p, "failed")

\* progress["done"] += 1
CountDone(p) == Bump(p, "done")

\* a handler that forgets to count
CountTimeout_Lost(p) == p

\* progress["failed"] += 1 of except asyncio.TimeoutError
CountTimeout(p) == Bump(p, "failed")

\* a handler that counts twice
CountError_Twice(p) == Bump(Bump(p, "failed"), "failed")

\* progress["failed"] += 1 of except Exception
CountError(p) == Bump(p, "failed")

\* the "except Exception" clause left out
Caught_TimeoutOnly(e) == e = "timeout"

\* The exceptions the two except clauses catch.
Caught(e) == e = "timeout" \/ e = "error"

\* The handler that runs for a caught exception.
CountFault(e, p) == IF e = "timeout" THEN CountTimeout(p) ELSE CountError(p)

\* a permit that is not given back
Released_Leak(v) == v

\* the value of the semaphore after "async with semaphore" is left
Released(v) == v + 1

\* The coroutine of task t leaves "async with semaphore" and ends; its
\* locals are gone.
Leave(t) ==
    /\ pc' = [pc EXCEPT ![t] = "returned"]
    /\ size' = [size EXCEPT ![t] = 0]
    /\ permits' = Released(permits)
    /\ holders' = holders \ {t}

\* Exception e is raised inside the try block of task t: a caught one is
\* counted, any other leaves the coroutine and gather re-raises it in main.
Raise(t, e) ==
    /\ fault' = [fault EXCEPT ![t] = e]
    /\ IF Caught(e)
       THEN progress' = CountFault(e, progress) /\ UNCHANGED phase
       ELSE phase' = "crashed" /\ UNCHANGED progress
    /\ Leave(t)

\* async with semaphore: a permit is taken when one is free
Acquire(t) ==
    /\ phase = "running"
    /\ t \in Tasks
    /\ pc[t] = "wait"
    /\ permits > 0
    /\ permits' = permits - 1
    /\ holders' = holders \cup {t}
    /\ pc' = [pc EXCEPT ![t] = "check"]
    /\ UNCHANGED <<cfgvars, phase, genvars, file_urls, run, progress, status, fault,
                   size, fs, fs0, requests>>

\* Lines 151-160: the existence test, then either the skip or the GET.
ResumeCheck(t) ==
    /\ phase = "running"
    /\ t \in Tasks
    /\ pc[t] = "check"
    /\ IF Exists(fs, FilePath(file_urls[t]))
       THEN /\ progress' = CountSkipped(progress)
            /\ Leave(t)
            /\ UNCHANGED requests
       ELSE /\ pc' = [pc EXCEPT ![t] = "request"]
            /\ requests' = requests + 1
            /\ UNCHANGED <<progress, permits, holders, size>>
    /\ UNCHANGED <<cfgvars, phase, genvars, file_urls, run, status, fault, fs,
                   fs0>>

\* the file opened before the status is looked at
Refused_Opened(t, s) ==
    /\ phase = "running"
    /\ t \in Tasks
    /\ pc[t] = "request"
    /\ s \in Statuses \ {200}
    /\ status' = [status EXCEPT ![t] = s]
    /\ progress' = IF s = 404 THEN CountMissing(progress) ELSE CountHttpError(progress)
    /\ fs' = [fs EXCEPT ![FilePath(file_urls[t])] = "partial"]
    /\ Leave(t)
    /\ UNCHANGED <<cfgvars, phase, genvars, file_urls, run, fault, fs0, requests>>

\* The response arrives with status s other than 200 (lines 161-168).
Refused(t, s) ==
    /\ phase = "running"
    /\ t \in Tasks
    /\ pc[t] = "request"
    /\ s \in Statuses \ {200}
    /\ status' = [status EXCEPT ![t] = s]
    /\ progress' = IF s = 404 THEN CountMissing(progress) ELSE CountHttpError(progress)
    /\ Leave(t)
    /\ UNCHANGED <<cfgvars, phase, genvars, file_urls, run, fault, fs, fs0,
                   requests>>

\* The response arrives with status 200 and the file is opened for writing
\* (lines 170-171), which creates it empty.
Accepted(t) ==
    /\ phase = "running"
    /\ t \in Tasks
    /\ pc[t] = "request"
    /\ status' = [status EXCEPT ![t] = 200]
    /\ size' = [size EXCEPT ![t] = 0]
    /\ fs' = [fs EXCEPT ![FilePath(file_urls[t])] = "partial"]
    /\ pc' = [pc EXCEPT ![t] = "body"]
    /\ UNCHANGED <<cfgvars, phase, genvars, file_urls, run, progress, permits, holders,
                   fault, fs0, requests>>

\* The response arrives with status 200 and open() raises (line 171): no
\* file is created.
OpenFails(t) ==
    /\ phase = "running"
    /\ t \in Tasks
    /\ pc[t] = "request"
    /\ status' = [status EXCEPT ![t] = 200]
    /\ Raise(t, "error")
    /\ UNCHANGED <<cfgvars, genvars, file_urls, run, fs, fs0, requests>>

\* The request times out or raises before a status is known (line 160).
RequestFault(t, e) ==
    /\ phase = "running"
    /\ t \in Tasks
    /\ pc[t] = "request"
    /\ e \in Faults
    /\ Raise(t, e)
    /\ UNCHANGED <<cfgvars, genvars, file_urls, run, status, fs, fs0, requests>>

\* A chunk arrives and is written (lines 172-174).
WriteChunk(t) ==
    /\ phase = "running"
    /\ t \in Tasks
    /\ pc[t] = "body"
    /\ size[t] < MaxChunks
    /\ size' = [size EXCEPT ![t] = @ + 1]
    /\ UNCHANGED <<cfgvars, phase, genvars, file_urls, run, progress, permits, holders,
                   pc, status, fault, fs, fs0, requests>>

\* The body ends: the file is closed complete and done is counted (lines 176-179).
EndOfBody(t) ==
    /\ phase = "running"
    /\ t \in Tasks
    /\ pc[t] = "body"
    /\ fs' = [fs EXCEPT ![FilePath(file_urls[t])] = "complete"]
    /\ progress' = CountDone(progress)
    /\ Leave(t)
    /\ UNCHANGED <<cfgvars, phase, genvars, file_urls, run, status, fault, fs0,
                   requests>>

\* leaving the with block on an exception also deleting the file
ClosedEarly_Removed(dir, path) == [dir EXCEPT ![path] = "absent"]

\* with open(filepath, "wb") left by an exception: the file is closed with
\* the bytes written so far and nothing removes it
ClosedEarly(dir, path) == dir

\* A chunk read times out or raises: the file is closed as it is (line 172).
BodyFault(t, e) ==
    /\ phase = "running"
    /\ t \in Tasks
    /\ pc[t] = "body"
    /\ e \in Faults
    /\ Raise(t, e)
    /\ fs' = ClosedEarly(fs, FilePath(file_urls[t]))
    /\ UNCHANGED <<cfgvars, genvars, file_urls, run, status, fs0, requests>>

\* ------------------------------------------------------------ specifications
\* The script has been loaded and main has not yet called generate_urls.
AtStart ==
    /\ phase = "sampling"
    /\ fields_picked = {}
    /\ urls = << >>
    /\ retries = 0
    /\ file_urls = << >>
    /\ run = 1
    /\ progress = NewProgress(0)
    /\ permits = 0
    /\ holders = {}
    /\ pc = << >>
    /\ status = << >>
    /\ fault = << >>
    /\ size = << >>
    /\ fs = << >>
    /\ fs0 = << >>
    /\ requests = 0

Configured ==
    /\ SDSS_RUNS \in Pools
    /\ BANDS \in BandLists
    /\ MAX_CONCURRENT \in 1..MaxConc
    /\ AtStart

\* The whole script, on configurations of at most MaxTasks URLs.
Init ==
    /\ NUM_FIELDS \in 0..MaxTasks
    /\ Configured
    /\ NUM_FIELDS * Len(BANDS) <= MaxTasks

Sample ==
    \/ \E i \in 1..Len(SDSS_RUNS) : \E field \in FieldRange(SDSS_RUNS[i][3]) : Draw(i, field)
    \/ ChoiceFails
    \/ \E i \in 1..Len(SDSS_RUNS) : RandintFails(i)
    \/ Return

Next ==
    \/ Sample
    \/ \E dir \in [Paths(file_urls) -> FileStates] : StartRun(dir)
    \/ \E t \in Tasks : Acquire(t)
    \/ \E t \in Tasks : ResumeCheck(t)
    \/ \E t \in Tasks : \E s \in Statuses : Refused(t, s)
    \/ \E t \in Tasks : Accepted(t)
    \/ \E t \in Tasks : OpenFails(t)
    \/ \E t \in Tasks : \E e \in Faults : RequestFault(t, e)
    \/ \E t \in Tasks : WriteChunk(t)
    \/ \E t \in Tasks : EndOfBody(t)
    \/ \E t \in Tasks : \E e \in Faults : BodyFault(t, e)
    \/ Finish
    \/ SecondRun

Spec == Init /\ [][Next]_vars

\* generate_urls alone, for NUM_FIELDS up to MaxN.
InitSampler ==
    /\ NUM_FIELDS \in 0..MaxN
    /\ Configured

SamplerSpec == InitSampler /\ [][Sample]_vars

\* generate_urls on the pools above and on two more configurations: one
\* range (100, 1, 50) with one band and a target of 3, and one range whose
\* max_field lies above the cap of randint's upper end.
OneRangePool == << <<100, 1, 50>> >>

AboveCapPool == << <<752, 1, FIELD_CAP + 1>> >>

InitKeys ==
    \/ InitSampler
    \/ /\ SDSS_RUNS = OneRangePool
       /\ BANDS = <<"r">>
       /\ NUM_FIELDS = 3
       /\ MAX_CONCURRENT = 1
       /\ AtStart
    \/ /\ SDSS_RUNS = AboveCapPool
       /\ BANDS = <<"r">>
       /\ NUM_FIELDS = 1
       /\ MAX_CONCURRENT = 1
       /\ AtStart

KeySpec == InitKeys /\ [][Sample]_vars

\* generate_urls under fair random choice: a (pool entry, field) pair that
\* random.choice and random.randint can draw over and over is eventually
\* drawn, and the return statement after the loop is eventually executed.
PoolIndexes == UNION { DOMAIN pool : pool \in Pools }

PoolFields ==
    UNION { UNION { FieldRange(pool[i][3]) : i \in DOMAIN pool } : pool \in Pools }

FairChoice ==
    /\ \A i \in PoolIndexes : \A field \in PoolFields : WF_vars(Draw(i, field))
    /\ WF_vars(Return)

FairSamplerSpec == SamplerSpec /\ FairChoice

\* One step of the event loop while main awaits the gather: some coroutine
\* that can continue does so, or the gather returns.
LoopStep ==
    \/ \E t \in Tasks : Acquire(t)
    \/ \E t \in Tasks : ResumeCheck(t)
    \/ \E t \in Tasks : \E s \in Statuses : Refused(t, s)
    \/ \E t \in Tasks : Accepted(t)
    \/ \E t \in Tasks : OpenFails(t)
    \/ \E t \in Tasks : \E e \in Faults : RequestFault(t, e)
    \/ \E t \in Tasks : WriteChunk(t)
    \/ \E t \in Tasks : EndOfBody(t)
    \/ \E t \in Tasks : \E e \in Faults : BodyFault(t, e)
    \/ Finish

\* The event loop does not stop while a coroutine can continue: a free permit
\* is handed to a waiter, and every request and every chunk read ends, by
\* ClientTimeout(total=TIMEOUT_SECONDS) at the latest.
Fairness == WF_vars(LoopStep)

LiveSpec == Spec /\ Fairness

\* ------------------------------------------------------------ properties
Sum(p) == p.done + p.failed + p.missing + p.skipped

Returned == {t \in Tasks : pc[t] = "returned"}

InSection == {t \in Tasks : pc[t] \in {"check", "request", "body"}}

PathOf(t) == FilePath(file_urls[t])

\* a file, complete or truncated, is at the path
OnDisk(dir, path) == dir[path] \in {"partial", "complete"}

AllPresent(dir) == \A t \in Tasks : OnDisk(dir, PathOf(t))

AllAbsent(dir) == \A t \in Tasks : ~OnDisk(dir, PathOf(t))

\* C1: when the gather of a run has completed, done + failed + missing +
\* skipped equals target, and target is the number of submitted tasks.
C1_CounterConservation ==
    phase = "complete" =>
        /\ Sum(progress) = progress.target
        /\ progress.target = Len(file_urls)

C1_Witness ==
    /\ phase = "complete"
    /\ progress.target = 2
    /\ progress.done = 1
    /\ progress.failed = 1
    /\ \E t \in Tasks : fault[t] = "timeout"

\* C2: at every moment the tasks inside the semaphore-guarded section are
\* exactly the holders of a permit and there are at most MAX_CONCURRENT of them.
C2_ConcurrencyBound ==
    phase \in {"running", "complete"} =>
        /\ holders = InSection
        /\ Cardinality(InSection) <= MAX_CONCURRENT

C2_Witness ==
    /\ phase = "running"
    /\ Cardinality(InSection) = MAX_CONCURRENT
    /\ \E t \in Tasks : pc[t] = "wait"
    /\ \E t \in Tasks : pc[t] = "body"

\* C3: the counters add up to the number of tasks that have ended, which
\* never exceeds target; a step of a run never lowers a counter, changes the
\* counters only when a task ends, and a task that ends raises exactly one
\* counter by exactly one.
C3_Counted ==
    phase \in {"running", "complete"} =>
        /\ Sum(progress) = Cardinality(Returned)
        /\ Sum(progress) <= progress.target

C3_Step ==
    phase = "running" =>
        LET ended == {t \in Tasks : pc[t] # "returned" /\ pc'[t] = "returned"}
            raised == {k \in {"done", "failed", "missing", "skipped"} :
                          progress'[k] # progress[k]}
        IN /\ \A k \in {"done", "failed", "missing", "skipped"} :
                  progress'[k] >= progress[k]
           /\ progress'.target = progress.target
           /\ ended = {} => progress' = progress
           /\ ended # {} =>
                  /\ Cardinality(ended) = 1
                  /\ Cardinality(raised) = 1
                  /\ Sum(progress') = Sum(progress) + 1

C3_OneIncrementPerTask == []C3_Counted /\ [][C3_Step]_vars

C3_Witness ==
    /\ phase = "running"
    /\ Cardinality(Returned) = 1
    /\ progress.failed = 1
    /\ \E t \in Tasks : fault[t] = "error" /\ status[t] = 0
    /\ \E t \in Tasks : pc[t] = "body"

\* C4: when generate_urls returns, exactly NUM_FIELDS keys have been
\* accepted; no URL is ever emitted twice, and a draw that does not enlarge
\* the accepted set (a key drawn again) emits nothing.
C4_Returned ==
    phase = "returned" => Cardinality(fields_picked) = NUM_FIELDS

C4_NoRepeat ==
    \A i, j \in DOMAIN urls : i # j => urls[i] # urls[j]

C4_Discard == fields_picked' = fields_picked => urls' = urls

C4_KeyUniqueness == []C4_Returned /\ []C4_NoRepeat /\ [][C4_Discard]_vars

C4_Witness ==
    /\ phase = "returned"
    /\ NUM_FIELDS = 3
    /\ Cardinality(fields_picked) = 3
    /\ retries > 0

\* C5: when generate_urls returns, the list holds NUM_FIELDS * len(BANDS)
\* URLs: exactly one for every pair of an accepted key and a band, and
\* nothing else.
C5_FanOut ==
    phase = "returned" =>
        /\ Len(file_urls) = NUM_FIELDS * Len(BANDS)
        /\ \A key \in fields_picked : \A b \in 1..Len(BANDS) :
               Cardinality({i \in DOMAIN file_urls :
                               file_urls[i] = Url(BANDS[b], key)}) = 1
        /\ \A i \in DOMAIN file_urls :
               \E key \in fields_picked : \E b \in 1..Len(BANDS) :
                   file_urls[i] = Url(BANDS[b], key)

C5_Witness ==
    /\ phase = "returned"
    /\ NUM_FIELDS = 2
    /\ Len(BANDS) = 2
    /\ Len(file_urls) = 4

\* C6 as stated: the second run on the same directory with the same tasks
\* ends with done = 0 and skipped = target.
C6_Original ==
    (phase = "complete" /\ run = 2) =>
        /\ progress.done = 0
        /\ progress.skipped = progress.target

\* C6: the second run skips exactly the tasks whose file the first run left
\* in the directory, complete or truncated; when that is every task it ends
\* with done = 0 and skipped = target.
C6_Amended ==
    (phase = "complete" /\ run = 2) =>
        /\ progress.skipped = Cardinality({t \in Tasks : OnDisk(fs0, PathOf(t))})
        /\ AllPresent(fs0) => (progress.done = 0 /\ progress.skipped = progress.target)

C6_Witness ==
    /\ phase = "complete"
    /\ run = 2
    /\ progress.target = 2
    /\ progress.skipped = 2
    /\ \E t \in Tasks : fs0[PathOf(t)] = "partial"
    /\ \E t \in Tasks : fs0[PathOf(t)] = "complete"

\* C7: a task that finds its file at the existence test counts skipped and
\* ends in that step, issuing no request and changing no file; a run that
\* starts with every file present ends with skipped = target and no request.
C7_SkipStep ==
    \A t \in Tasks :
        (phase = "running" /\ pc[t] = "check" /\ OnDisk(fs, PathOf(t)) /\ pc'[t] # "check") =>
            /\ pc'[t] = "returned"
            /\ progress' = [progress EXCEPT !.skipped = @ + 1]
            /\ requests' = requests
            /\ fs' = fs
            /\ status'[t] = 0

C7_AllSkipped ==
    (phase = "complete" /\ AllPresent(fs0)) =>
        /\ progress.skipped = progress.target
        /\ requests = 0
        /\ fs = fs0

C7_ResumeCheck == [][C7_SkipStep]_vars /\ []C7_AllSkipped

C7_Witness ==
    /\ phase = "complete"
    /\ run = 1
    /\ progress.target = 2
    /\ AllPresent(fs0)
    /\ progress.skipped = 2
    /\ requests = 0

\* C8: a run that starts with no file present and in which every request is
\* answered 404 ends with missing = target, the other counters 0 and no file
\* created.
C8_All404 ==
    (/\ phase = "complete"
     /\ AllAbsent(fs0)
     /\ \A t \in Tasks : status[t] = 404 /\ fault[t] = "none") =>
        /\ progress.missing = progress.target
        /\ progress.done = 0
        /\ progress.failed = 0
        /\ progress.skipped = 0
        /\ fs = fs0

C8_Witness ==
    /\ phase = "complete"
    /\ progress.target = 2
    /\ AllAbsent(fs0)
    /\ \A t \in Tasks : status[t] = 404 /\ fault[t] = "none"
    /\ requests = 2
    /\ progress.missing = 2

\* C9: no step of a run ends it other than by completion, whatever fails;
\* a run that has started eventually completes, and it completes only when
\* every task has ended by counting one outcome.
C9_NoCrash == phase = "running" => phase' \in {"running", "complete"}

C9_AllEnded ==
    phase = "complete" =>
        /\ \A t \in Tasks : pc[t] = "returned"
        /\ Sum(progress) = Len(file_urls)

C9_Completion ==
    /\ [][C9_NoCrash]_vars
    /\ []C9_AllEnded
    /\ (phase = "running") ~> (phase = "complete")

C9_Witness ==
    /\ phase = "complete"
    /\ progress.target = 2
    /\ progress.failed = 2
    /\ \E t \in Tasks : fault[t] = "error" /\ status[t] = 200
    /\ \E t \in Tasks : status[t] = 500

\* C10 as stated: a task at the existence test holds no permit.
C10_Original ==
    \A t \in Tasks : (phase = "running" /\ pc[t] = "check") => t \notin holders

\* C10: the existence test is gated by the semaphore: a task at the test
\* holds a permit, and a task that has not taken one stays where it is while
\* MAX_CONCURRENT other tasks hold theirs, whether or not its file exists.
C10_Gated ==
    \A t \in Tasks : (phase = "running" /\ pc[t] = "check") => t \in holders

C10_Blocked ==
    \A t \in Tasks :
        (phase = "running" /\ pc[t] = "wait" /\ Cardinality(holders) = MAX_CONCURRENT) =>
            pc'[t] = "wait"

C10_Amended == []C10_Gated /\ [][C10_Blocked]_vars

C10_Witness ==
    /\ phase = "running"
    /\ permits = 0
    /\ \E t \in Tasks : pc[t] = "wait" /\ OnDisk(fs, PathOf(t))
    /\ \E t \in Tasks : pc[t] = "check" /\ OnDisk(fs, PathOf(t)) /\ t \in holders

\* C11: the permits that are free and the permits that are held always add
\* up to MAX_CONCURRENT; a task that ends, on whatever path, gives its permit
\* back in that step, and when every task has ended all permits are free.
C11_Balance ==
    phase \in {"running", "complete"} =>
        /\ permits >= 0
        /\ permits + Cardinality(holders) = MAX_CONCURRENT
        /\ Returned = Tasks => permits = MAX_CONCURRENT

C11_ReleaseStep ==
    \A t \in Tasks :
        (phase = "running" /\ t \in holders /\ pc'[t] = "returned") =>
            /\ permits' = permits + 1
            /\ t \notin holders'

C11_PermitRelease == []C11_Balance /\ [][C11_ReleaseStep]_vars

C11_Witness ==
    /\ phase = "complete"
    /\ progress.target = 2
    /\ permits = MAX_CONCURRENT
    /\ progress.skipped = 1
    /\ \E t \in Tasks : fault[t] = "timeout" /\ status[t] = 200

\* C12: a task whose file was absent counts by its transfer result alone:
\* 404 counts missing, any other status than 200 counts failed, a timeout or
\* another exception before or after the status counts failed, and 200 with
\* the body streamed to the end counts done; each raises that counter by one
\* and leaves the other three as they were.
C12_CounterOf(t) ==
    IF fault'[t] # "none" THEN "failed"
    ELSE IF status'[t] = 404 THEN "missing"
    ELSE IF status'[t] = 200 THEN "done"
    ELSE "failed"

C12_Step ==
    \A t \in Tasks :
        (phase = "running" /\ pc[t] \in {"request", "body"} /\ pc'[t] = "returned") =>
            /\ progress' = [progress EXCEPT ![C12_CounterOf(t)] = @ + 1]
            /\ (C12_CounterOf(t) = "done") = (fs'[PathOf(t)] = "complete")
            /\ status'[t] \in {200, 404, 500} \/ fault'[t] \in {"timeout", "error"}

C12_Classification == [][C12_Step]_vars

C12_Witness ==
    /\ phase = "complete"
    /\ progress.target = 2
    /\ progress.failed = 1
    /\ progress.missing = 1
    /\ \E t \in Tasks : status[t] = 500 /\ fault[t] = "none"

\* C13: the final counters are a function of the tasks, the directory at
\* the start and each task's transfer result, whatever the interleaving:
\* each counter equals the number of tasks with the matching result.
C13_Expected ==
    LET fetched == {t \in Tasks : ~OnDisk(fs0, PathOf(t))}
    IN [done    |-> Cardinality({t \in fetched : status[t] = 200 /\ fault[t] = "none"}),
        failed  |-> Cardinality({t \in fetched : status[t] = 500 \/ fault[t] # "none"}),
        missing |-> Cardinality({t \in fetched : status[t] = 404 /\ fault[t] = "none"}),
        skipped |-> Cardinality(Tasks \ fetched),
        target  |-> Len(file_urls)]

C13_OrderIndependence == phase = "complete" => progress = C13_Expected

C13_Witness ==
    /\ phase = "complete"
    /\ progress.done = 2
    /\ MAX_CONCURRENT = 2
    /\ \A t \in Tasks : status[t] = 200 /\ fault[t] = "none"

\* The keys a pool can supply: every (run, camcol, field) of an entry with
\* field from 11 up to the smaller of the entry's max_field and 500.
AddressableKeys(pool) ==
    UNION { { <<pool[i][1], pool[i][2], f>> : f \in FIELD_LOW .. Min(pool[i][3], FIELD_CAP) } :
            i \in DOMAIN pool }

Exhausted == Cardinality(AddressableKeys(SDSS_RUNS)) < NUM_FIELDS

Drawable == SDSS_RUNS # << >> /\ \A i \in DOMAIN SDSS_RUNS : SDSS_RUNS[i][3] >= FIELD_LOW

\* C14 as stated: a pool with fewer addressable keys than n_fields keeps
\* generate_urls in its loop forever, with no error.
C14_Original == Exhausted => phase = "sampling"

\* C14: with fewer addressable keys than n_fields generate_urls never
\* returns and no task is ever scheduled; when the pool is non-empty and
\* every entry has max_field >= 11 the loop goes on forever: a draw is
\* always possible, the loop test stays true, and no error ends it.
C14_NeverReturns ==
    Exhausted =>
        /\ phase \in {"sampling", "crashed"}
        /\ file_urls = << >>
        /\ Tasks = {}
        /\ requests = 0

C14_LoopsForever ==
    (Exhausted /\ Drawable) =>
        /\ phase = "sampling"
        /\ Cardinality(fields_picked) < NUM_FIELDS
        /\ ENABLED (\E i \in DOMAIN SDSS_RUNS : \E field \in FieldRange(SDSS_RUNS[i][3]) : Draw(i, field))

C14_Amended == C14_NeverReturns /\ C14_LoopsForever

C14_Witness ==
    /\ Exhausted
    /\ Drawable
    /\ NUM_FIELDS = 2
    /\ Cardinality(fields_picked) = 1
    /\ retries >= 1

\* C15: with a non-empty pool, every max_field >= 11 and at least n_fields
\* addressable keys, generate_urls eventually returns under fair random
\* choice.
C15_SamplerTermination ==
    (phase = "sampling" /\ Drawable /\ ~Exhausted) ~> (phase = "returned")

C15_Witness ==
    /\ phase = "returned"
    /\ Len(SDSS_RUNS) = 2
    /\ Drawable
    /\ fields_picked = AddressableKeys(SDSS_RUNS)
    /\ Cardinality(fields_picked) = NUM_FIELDS

\* C16 as stated: with an empty pool the run never gets past generate_urls,
\* whatever NUM_FIELDS is.
C16_Original == SDSS_RUNS = << >> => phase \in {"sampling", "crashed"}

\* C16: with an empty pool and NUM_FIELDS >= 1 the only step generate_urls
\* can take is the uncaught IndexError, so no task is scheduled and no
\* progress record or summary is produced; with NUM_FIELDS = 0 the loop is
\* not entered and the run completes with no task and a summary of zeros.
C16_OnlyAbort ==
    (SDSS_RUNS = << >> /\ NUM_FIELDS >= 1 /\ phase = "sampling") => phase' = "crashed"

C16_NothingProduced ==
    (SDSS_RUNS = << >> /\ NUM_FIELDS >= 1) =>
        /\ phase \in {"sampling", "crashed"}
        /\ file_urls = << >>
        /\ Tasks = {}
        /\ permits = 0
        /\ Sum(progress) = 0

C16_ZeroTarget ==
    (SDSS_RUNS = << >> /\ NUM_FIELDS = 0 /\ phase \in {"running", "complete"}) =>
        /\ Tasks = {}
        /\ progress = NewProgress(0)

C16_Amended == [][C16_OnlyAbort]_vars /\ [](C16_NothingProduced /\ C16_ZeroTarget)

C16_Witness ==
    /\ SDSS_RUNS = << >>
    /\ NUM_FIELDS = MaxTasks
    /\ phase = "crashed"
    /\ fields_picked = {}

\* C17: a task that got status 200, opened its file and then fails before
\* the body has been streamed to its end counts failed and leaves the
\* truncated file in place; a later run finds that file, counts the task
\* skipped and issues no request for it, so the file stays truncated.
C17_AbortStep ==
    \A t \in Tasks :
        (phase = "running" /\ pc[t] = "body" /\ pc'[t] = "returned" /\ fault'[t] # "none") =>
            /\ status[t] = 200
            /\ progress' = [progress EXCEPT !.failed = @ + 1]
            /\ fs'[PathOf(t)] = "partial"

C17_Truncated == {t \in Tasks : fs0[PathOf(t)] = "partial"}

C17_LaterRun ==
    (run = 2 /\ phase \in {"running", "complete"}) =>
        /\ \A t \in C17_Truncated :
              /\ status[t] = 0
              /\ fault[t] = "none"
              /\ pc[t] \in {"wait", "check", "returned"}
              /\ fs[PathOf(t)] = "partial"
        /\ progress.skipped >= Cardinality(C17_Truncated \cap Returned)
        /\ requests <= Cardinality(Tasks \ C17_Truncated)

C17_PartialFile == [][C17_AbortStep]_vars /\ []C17_LaterRun

C17_Witness ==
    /\ run = 2
    /\ phase = "complete"
    /\ progress.skipped = 1
    /\ progress.failed = 1
    /\ \E t \in C17_Truncated : pc[t] = "returned"
    /\ \E t \in Tasks : status[t] = 200 /\ fault[t] = "error" /\ fs[PathOf(t)] = "partial"

\* C18: two distinct tasks of a run have distinct destination paths, so no
\* two tasks ever have the same file open for writing, and a task that is
\* skipped found a file that was there when the run started, never one
\* that another task of the run is writing or has written.
C18_DistinctPaths ==
    \A t1, t2 \in Tasks : t1 # t2 => PathOf(t1) # PathOf(t2)

C18_OneWriter ==
    \A t1, t2 \in Tasks :
        (pc[t1] = "body" /\ pc[t2] = "body" /\ PathOf(t1) = PathOf(t2)) => t1 = t2

C18_OwnFile ==
    \A t \in Tasks :
        fs[PathOf(t)] # fs0[PathOf(t)] =>
            /\ status[t] = 200
            /\ \A u \in Tasks \ {t} : PathOf(u) # PathOf(t)

C18_SkipSeesOldFile ==
    \A t \in Tasks :
        (phase = "running" /\ pc[t] = "check" /\ pc'[t] = "returned") => OnDisk(fs0, PathOf(t))

C18_NoWriteRace ==
    /\ [](phase \in {"running", "complete"} => C18_DistinctPaths /\ C18_OneWriter /\ C18_OwnFile)
    /\ [][C18_SkipSeesOldFile]_vars

C18_Witness ==
    /\ phase = "running"
    /\ Len(BANDS) = 2
    /\ Cardinality(Tasks) = 2
    /\ \A t \in Tasks : pc[t] = "body" /\ fs[PathOf(t)] = "partial"

\* C19: every accepted key has the run and camcol of a pool entry and a
\* field from 11 up to the smaller of that entry's max_field and 500; with
\* the one range (100, 1, 50), one band and a target of 3, generate_urls
\* returns exactly 3 URLs, all for run 100 and camcol 1, with three
\* distinct fields between 11 and 50.
C19_FromPool(key) ==
    \E i \in DOMAIN SDSS_RUNS :
        /\ key[1] = SDSS_RUNS[i][1]
        /\ key[2] = SDSS_RUNS[i][2]
        /\ key[3] >= 11
        /\ key[3] <= SDSS_RUNS[i][3]
        /\ key[3] <= 500

C19_Example ==
    (SDSS_RUNS = OneRangePool /\ BANDS = <<"r">> /\ NUM_FIELDS = 3 /\ phase = "returned") =>
        /\ Len(file_urls) = 3
        /\ Cardinality(fields_picked) = 3
        /\ \A key \in fields_picked : key[1] = 100 /\ key[2] = 1 /\ key[3] \in 11..50
        /\ {file_urls[j] : j \in 1..3} = {Url("r", key) : key \in fields_picked}
        /\ Cardinality({file_urls[j] : j \in 1..3}) = 3

C19_KeyValidity == (\A key \in fields_picked : C19_FromPool(key)) /\ C19_Example

C19_Witness ==
    /\ SDSS_RUNS = OneRangePool
    /\ phase = "returned"
    /\ Len(file_urls) = 3
    /\ <<100, 1, 11>> \in fields_picked
    /\ <<100, 1, 50>> \in fields_picked

\* C20: during a run the directory changes only at the path of the task
\* taking the step, and only once that task has status 200; the file of a
\* task that has not received 200 (skipped, missing, failed on another
\* status, failed before any status) is as it was when the run started;
\* the target count stays what it was set to when progress was created.
C20_WriteStep ==
    phase = "running" =>
        /\ DOMAIN fs' = DOMAIN fs
        /\ \A path \in DOMAIN fs :
              fs'[path] # fs[path] =>
                  \E t \in Tasks :
                      /\ PathOf(t) = path
                      /\ pc[t] \in {"request", "body"}
                      /\ status'[t] = 200
        /\ progress'.target = progress.target

C20_EndStep ==
    \A t \in Tasks :
        (phase = "running" /\ pc[t] # "returned" /\ pc'[t] = "returned" /\ status'[t] # 200) =>
            fs' = fs

C20_Untouched ==
    phase \in {"running", "complete"} =>
        /\ \A t \in Tasks : status[t] # 200 => fs[PathOf(t)] = fs0[PathOf(t)]
        /\ progress.target = Len(file_urls)

C20_FilesystemFrame == [][C20_WriteStep /\ C20_EndStep]_vars /\ []C20_Untouched

C20_Witness ==
    /\ phase = "complete"
    /\ run = 1
    /\ progress.target = 2
    /\ progress.done = 1
    /\ \E t \in Tasks : status[t] = 0 /\ fault[t] = "timeout" /\ fs[PathOf(t)] = "absent"
    /\ \E t \in Tasks : status[t] = 200 /\ fs0[PathOf(t)] = "absent" /\ fs[PathOf(t)] = "complete"

====
